---- MODULE Spec2Model ----
(***************************************************************************)
(* A model of warlight.py: the Engine that reads protocol lines from the   *)
(* standard input, dispatches each to the message handlers selected by    *)
(* their regular expressions, keeps the Region / SuperRegion graph, and    *)
(* writes one response line per turn.                                      *)
(*                                                                         *)
(* Text is modelled as sequences of one-character strings, so that the     *)
(* regular expressions, str.split, str.join, int() and the % formatting    *)
(* are computed as the code computes them.  Region and SuperRegion         *)
(* objects live in heaps addressed by naturals, so that object identity    *)
(* (a re-declared id makes a new object) is kept apart from equality of    *)
(* ids.                                                                    *)
(***************************************************************************)
EXTENDS Integers, Sequences, FiniteSets, TLC

\* ------------------------------------------------------------------------
\* Bounds of the model
\* ------------------------------------------------------------------------

\* lines the input stream delivers before end-of-input
MaxLines == 4

\* repeated records carried by one line
MaxItems == 2

\* builder calls a decision callback makes before it returns
MaxCalls == 2

\* reads at end-of-input that are counted (the counter saturates)
MaxEofReads == 2

\* ------------------------------------------------------------------------
\* Characters and text
\* ------------------------------------------------------------------------

LowerAlpha ==
    <<"a","b","c","d","e","f","g","h","i","j","k","l","m",
      "n","o","p","q","r","s","t","u","v","w","x","y","z">>

UpperAlpha ==
    <<"A","B","C","D","E","F","G","H","I","J","K","L","M",
      "N","O","P","Q","R","S","T","U","V","W","X","Y","Z">>

DigitChars == <<"0","1","2","3","4","5","6","7","8","9">>

Range(f) == { f[i] : i \in DOMAIN f }

\* \d
DigitC == Range(DigitChars)

\* \s
SpaceC == {" ", "\t", "\n", "\r", "\f"}

\* [a-z] under re.IGNORECASE
LetterC == Range(LowerAlpha) \cup Range(UpperAlpha)

\* [a-z0-9_] under re.IGNORECASE
NameC == LetterC \cup DigitC \cup {"_"}

\* [0-9,]
NbrC == DigitC \cup {","}

\* re.IGNORECASE: a literal of the pattern is compared in lower case
Lower(c) ==
    IF c \in Range(UpperAlpha)
    THEN LowerAlpha[CHOOSE i \in DOMAIN UpperAlpha : UpperAlpha[i] = c]
    ELSE c

Upper(c) ==
    IF c \in Range(LowerAlpha)
    THEN UpperAlpha[CHOOSE i \in DOMAIN LowerAlpha : LowerAlpha[i] = c]
    ELSE c

UpperText(s) == [i \in 1..Len(s) |-> Upper(s[i])]

\* the position after the longest run of characters of class C that starts
\* at position i of s (i itself when there is none): a greedy X* at i
RunEnd(s, i, C) ==
    IF i > Len(s) THEN i
    ELSE CHOOSE j \in i..(Len(s) + 1) :
             /\ (j = Len(s) + 1 \/ s[j] \notin C)
             /\ \A k \in i..(j - 1) : s[k] \in C

\* the literal lit stands at position i of s (case-insensitively)
LitAt(s, i, lit) ==
    /\ i >= 1
    /\ i + Len(lit) - 1 <= Len(s)
    /\ \A k \in 1..Len(lit) : Lower(s[i + k - 1]) = lit[k]

\* str.join
RECURSIVE Join(_, _)
Join(parts, sep) ==
    IF Len(parts) = 0 THEN <<>>
    ELSE IF Len(parts) = 1 THEN parts[1]
    ELSE parts[1] \o sep \o Join(Tail(parts), sep)

\* str.split(sep) for a one-character separator: every occurrence splits,
\* so two separators in a row give an empty piece
RECURSIVE SplitFrom(_, _, _)
SplitFrom(s, sep, i) ==
    LET e == CHOOSE j \in i..(Len(s) + 1) :
                 /\ (j = Len(s) + 1 \/ s[j] = sep)
                 /\ \A k \in i..(j - 1) : s[k] # sep
    IN  IF e = Len(s) + 1 THEN << SubSeq(s, i, Len(s)) >>
        ELSE << SubSeq(s, i, e - 1) >> \o SplitFrom(s, sep, e + 1)

Split(s, sep) == SplitFrom(s, sep, 1)

\* str(n) of a non-negative integer
RECURSIVE ToDecimal(_)
ToDecimal(n) ==
    IF n < 10 THEN << DigitChars[n + 1] >>
    ELSE ToDecimal(n \div 10) \o << DigitChars[(n % 10) + 1] >>

\* str.strip(): without the blanks at both ends
Strip(s) ==
    LET blank(k) == s[k] \in SpaceC
        first == IF \A k \in 1..Len(s) : blank(k) THEN Len(s) + 1
                 ELSE CHOOSE k \in 1..Len(s) :
                          ~blank(k) /\ \A j \in 1..(k - 1) : blank(j)
        last == IF \A k \in 1..Len(s) : blank(k) THEN Len(s)
                ELSE CHOOSE k \in 1..Len(s) :
                         ~blank(k) /\ \A j \in (k + 1)..Len(s) : blank(j)
    IN  SubSeq(s, first, last)

\* int(s) accepts a non-empty run of digits between blanks (a sign never
\* occurs in what the patterns capture); anything else is a ValueError
IsInt(s) == Len(Strip(s)) > 0 /\ \A k \in 1..Len(Strip(s)) : Strip(s)[k] \in DigitC

DigitVal(c) == CHOOSE d \in 0..9 : DigitChars[d + 1] = c

RECURSIVE DigitsValue(_)
DigitsValue(s) ==
    IF Len(s) = 0 THEN 0
    ELSE 10 * DigitsValue(SubSeq(s, 1, Len(s) - 1)) + DigitVal(s[Len(s)])

ParseInt(s) == DigitsValue(Strip(s))

\* ------------------------------------------------------------------------
\* Words of the protocol
\* ------------------------------------------------------------------------

W_setup_map == <<"s","e","t","u","p","_","m","a","p">>
W_super_regions == <<"s","u","p","e","r","_","r","e","g","i","o","n","s">>
W_regions == <<"r","e","g","i","o","n","s">>
W_neighbors == <<"n","e","i","g","h","b","o","r","s">>
W_settings == <<"s","e","t","t","i","n","g","s">>
W_your_bot == <<"y","o","u","r","_","b","o","t">>
W_opponent_bot == <<"o","p","p","o","n","e","n","t","_","b","o","t">>
W_starting_armies == <<"s","t","a","r","t","i","n","g","_","a","r","m","i","e","s">>
W_update_map == <<"u","p","d","a","t","e","_","m","a","p">>
W_opponent_moves == <<"o","p","p","o","n","e","n","t","_","m","o","v","e","s">>
W_pick_starting_regions ==
    <<"p","i","c","k","_","s","t","a","r","t","i","n","g","_","r","e","g","i","o","n","s">>
W_go == <<"g","o">>
W_place_armies == <<"p","l","a","c","e","_","a","r","m","i","e","s">>
W_attack_transfer == <<"a","t","t","a","c","k","/","t","r","a","n","s","f","e","r">>

\* 'No moves' of Engine.do_no_moves
NoMoves == <<"N","o"," ","m","o","v","e","s">>

\* 'neutral' of Region.__init__
Neutral == <<"n","e","u","t","r","a","l">>

\* None of Engine.__init__ (me, opponent); no name the patterns capture is
\* empty, so the empty text stands for it
None == <<>>

\* "%s" % v for a name that may be None
Str(v) == IF v = None THEN <<"N","o","n","e">> ELSE v

SP == <<" ">>
NL == <<"\n">>

\* ------------------------------------------------------------------------
\* The patterns of the @event and @event_item decorators
\* ------------------------------------------------------------------------

NoMatch == [matched |-> FALSE, group |-> <<>>]

\* "^w1\s+w2\s+ ... wn\s+" at the start of the message: the position after
\* it, or 0 when the message does not start that way.  Each \s+ is greedy
\* and is followed by a character that is no blank, so the longest run is
\* the only way to match.
RECURSIVE WordsEnd(_, _, _)
WordsEnd(message, words, i) ==
    IF Len(words) = 0 THEN i
    ELSE LET w == Head(words)
             j == i + Len(w)
             k == RunEnd(message, j, SpaceC)
         IN  IF LitAt(message, i, w) /\ k > j
             THEN WordsEnd(message, Tail(words), k)
             ELSE 0

\* "(.*)": everything up to the end of the line
CaptureRest(message, i) ==
    [matched |-> TRUE,
     group |-> SubSeq(message, i, RunEnd(message, i, Range(message) \ {"\n"}) - 1)]

\* "(\d*)": a capture that also accepts no digit at all
CaptureDigits_star(message, i) ==
    LET e == RunEnd(message, i, DigitC)
    IN  [matched |-> TRUE, group |-> SubSeq(message, i, e - 1)]

\* "(\d+)"
CaptureDigits(message, i) ==
    LET e == RunEnd(message, i, DigitC)
    IN  IF e > i THEN [matched |-> TRUE, group |-> SubSeq(message, i, e - 1)]
        ELSE NoMatch

\* "((?:[a-z][a-z0-9_]*))"
CaptureName(message, i) ==
    IF i <= Len(message) /\ message[i] \in LetterC
    THEN [matched |-> TRUE,
          group |-> SubSeq(message, i, RunEnd(message, i + 1, NameC) - 1)]
    ELSE NoMatch

\* pattern.search(message) for a pattern "^words (capture)"
Search(words, capture, message) ==
    LET i == WordsEnd(message, words, 1)
    IN  IF i = 0 THEN NoMatch
        ELSE CASE capture = "rest" -> CaptureRest(message, i)
               [] capture = "digits" -> CaptureDigits(message, i)
               [] capture = "name" -> CaptureName(message, i)

\* The primary pattern of each message handler
Pattern_on_setup_map_super_regions(message) ==
    Search(<<W_setup_map, W_super_regions>>, "rest", message)

\* "^setup_map\s+(.*)": a pattern of on_setup_map_regions without its second
\* word, which also matches the two other setup_map lines
Pattern_on_setup_map_regions_any(message) ==
    Search(<<W_setup_map>>, "rest", message)

Pattern_on_setup_map_regions(message) ==
    Search(<<W_setup_map, W_regions>>, "rest", message)

Pattern_on_setup_map_neighbors(message) ==
    Search(<<W_setup_map, W_neighbors>>, "rest", message)

Pattern_on_settings_your_bot(message) ==
    Search(<<W_settings, W_your_bot>>, "name", message)

Pattern_on_settings_opponent_bot(message) ==
    Search(<<W_settings, W_opponent_bot>>, "name", message)

Pattern_on_settings_starting_armies(message) ==
    Search(<<W_settings, W_starting_armies>>, "digits", message)

Pattern_on_update_map(message) ==
    Search(<<W_update_map>>, "rest", message)

Pattern_on_opponent_moves(message) ==
    Search(<<W_opponent_moves>>, "rest", message)

Pattern_on_pick_starting_regions(message) ==
    Search(<<W_pick_starting_regions>>, "rest", message)

Pattern_on_go_place_armies(message) ==
    Search(<<W_go, W_place_armies>>, "digits", message)

Pattern_on_go_attack_or_transfer(message) ==
    Search(<<W_go, W_attack_transfer>>, "digits", message)

\* The item patterns: the position after a match that starts at position i
\* of the group g, or 0 when there is none.

\* "(\d+\s+\d)" of on_setup_map_super_regions and on_setup_map_regions
ItemEnd_id_digit(g, i) ==
    LET a == RunEnd(g, i, DigitC)
        b == RunEnd(g, a, SpaceC)
    IN  IF a > i /\ b > a /\ b <= Len(g) /\ g[b] \in DigitC THEN b + 1 ELSE 0

\* "(\d+\s+(?:[0-9,]*))" of on_setup_map_neighbors
ItemEnd_neighbors(g, i) ==
    LET a == RunEnd(g, i, DigitC)
        b == RunEnd(g, a, SpaceC)
    IN  IF a > i /\ b > a THEN RunEnd(g, b, NbrC) ELSE 0

\* "(\d+\s+(?:[a-z][a-z0-9_]*)\s+\d+)" of on_update_map
ItemEnd_update(g, i) ==
    LET a == RunEnd(g, i, DigitC)
        b == RunEnd(g, a, SpaceC)
        c == RunEnd(g, b + 1, NameC)
        d == RunEnd(g, c, SpaceC)
        e == RunEnd(g, d, DigitC)
    IN  IF a > i /\ b > a /\ b <= Len(g) /\ g[b] \in LetterC /\ d > c /\ e > d
        THEN e ELSE 0

\* "((?:[a-z][a-z0-9_]*)\s+(?:place_armies|attack\/transfer)\s+\d+\s+\d+)"
\* of on_opponent_moves
ItemEnd_opponent(g, i) ==
    LET a == RunEnd(g, i + 1, NameC)
        b == RunEnd(g, a, SpaceC)
        v == IF LitAt(g, b, W_place_armies) THEN b + Len(W_place_armies)
             ELSE IF LitAt(g, b, W_attack_transfer) THEN b + Len(W_attack_transfer)
             ELSE 0
        c == RunEnd(g, v, SpaceC)
        d == RunEnd(g, c, DigitC)
        e == RunEnd(g, d, SpaceC)
        h == RunEnd(g, e, DigitC)
    IN  IF g[i] \in LetterC /\ b > a /\ v > 0 /\ c > v /\ d > c /\ e > d /\ h > e
        THEN h ELSE 0

\* "(\d+)" of on_pick_starting_regions
ItemEnd_digits(g, i) ==
    LET a == RunEnd(g, i, DigitC)
    IN  IF a > i THEN a ELSE 0

ItemEnd(sub_pattern, g, i) ==
    CASE sub_pattern = "id_digit" -> ItemEnd_id_digit(g, i)
      [] sub_pattern = "neighbors" -> ItemEnd_neighbors(g, i)
      [] sub_pattern = "update" -> ItemEnd_update(g, i)
      [] sub_pattern = "opponent" -> ItemEnd_opponent(g, i)
      [] sub_pattern = "digits" -> ItemEnd_digits(g, i)

\* re.findall(sub_pattern, group): the matches from left to right, each
\* search resuming where the previous match ended
RECURSIVE FindAllFrom(_, _, _)
FindAllFrom(sub_pattern, g, i) ==
    IF i > Len(g) THEN <<>>
    ELSE LET e == ItemEnd(sub_pattern, g, i)
         IN  IF e = 0 THEN FindAllFrom(sub_pattern, g, i + 1)
             ELSE << SubSeq(g, i, e - 1) >> \o FindAllFrom(sub_pattern, g, e)

FindAll(sub_pattern, g) == FindAllFrom(sub_pattern, g, 1)

\* ------------------------------------------------------------------------
\* Objects and the state of the Engine
\* ------------------------------------------------------------------------

EmptyDict == [k \in {} |-> 0]

\* id(): a new object gets an address no live object has
Fresh(used) ==
    CHOOSE a \in 1..(Cardinality(used) + 1) :
        a \notin used /\ \A b \in 1..(a - 1) : b \in used

\* Region(region_id, super_region)
NewRegion(region_id, super_region) ==
    [region_id |-> region_id, super_region |-> super_region,
     armies |-> 0, owner |-> Neutral, neighbours |-> <<>>]

\* SuperRegion(super_region_id, reward)
NewSuperRegion(super_region_id, reward) ==
    [super_region_id |-> super_region_id, reward |-> reward, regions |-> <<>>]

\* Engine.__init__ (region_objs and super_region_objs are the heaps the two
\* dictionaries and the object references point into)
NewEngine ==
    [responses |-> <<>>,
     super_regions |-> EmptyDict,
     regions |-> EmptyDict,
     me |-> None,
     opponent |-> None,
     starting_armies |-> 0,
     region_objs |-> EmptyDict,
     super_region_objs |-> EmptyDict]

\* the methods of Engine whose name matches '^(on_*.)', in the order of
\* dir(self)
HandlerMethods ==
    << "on_go_attack_or_transfer",
       "on_go_place_armies",
       "on_opponent_moves",
       "on_pick_starting_regions",
       "on_settings_opponent_bot",
       "on_settings_starting_armies",
       "on_settings_your_bot",
       "on_setup_map_neighbors",
       "on_setup_map_regions",
       "on_setup_map_super_regions",
       "on_update_map" >>

\* the handlers that hand the turn to a decision callback of the Handler
TriggerMethods ==
    {"on_pick_starting_regions", "on_go_place_armies", "on_go_attack_or_transfer"}

\* the decision callbacks of Handler that raise NotImplementedError unless
\* they are overridden
MandatoryCallbacks == {"on_go_place_armies", "on_go_attack_or_transfer"}

\* the Region objects that can still be reached: those of the dictionary
\* and those in the neighbour lists of reachable ones
RECURSIVE Reach(_, _)
Reach(objs, S) ==
    LET T == S \cup UNION { Range(objs[a].neighbours) : a \in S }
    IN  IF T = S THEN S ELSE Reach(objs, T)

\* objects nothing refers to any more are freed
Collect(eng) ==
    LET live == Reach(eng.region_objs, Range(eng.regions))
        liveSuper == Range(eng.super_regions)
                        \cup { eng.region_objs[a].super_region : a \in live }
    IN  [eng EXCEPT
            !.region_objs = [a \in live |-> eng.region_objs[a]],
            !.super_region_objs = [a \in liveSuper |-> eng.super_region_objs[a]]]

\* ------------------------------------------------------------------------
\* A frame: the Engine while one line is being handled, with the callbacks
\* of the Handler invoked so far, the message handlers fired so far, the
\* lines written to the standard output so far, the exception raised (if
\* any) and the handler suspended in a decision callback (if any)
\* ------------------------------------------------------------------------

Frame(eng) ==
    [eng |-> eng, calls |-> <<>>, seen |-> <<>>, fired |-> <<>>, out |-> <<>>,
     err |-> "none", at |-> 0]

\* a call self.handler.<cb>(self, ...): a and b are the objects passed (0
\* for none), text and num the string and the integer passed, objs the list
\* of objects passed
Call(cb, a, b, text, num) ==
    [cb |-> cb, a |-> a, b |-> b, text |-> text, num |-> num, objs |-> <<>>]

\* the callback is called: seen keeps, call by call, the Engine the callback
\* is handed (self), as it is at the time of the call
Invoked(f, call) ==
    [f EXCEPT !.calls = Append(@, call), !.seen = Append(@, f.eng)]

Raise(f, exception) == [f EXCEPT !.err = exception]

\* for x in items: body, stopping at the first exception
ForEach(Body(_, _), f, items) ==
    LET F[k \in 0..Len(items)] ==
            IF k = 0 THEN f
            ELSE LET prev == F[k - 1]
                 IN  IF prev.err # "none" THEN prev ELSE Body(prev, items[k])
    IN  F[Len(items)]

\* ------------------------------------------------------------------------
\* The message handlers
\* ------------------------------------------------------------------------

\* the body of the loop of on_setup_map_super_regions
SuperRegionItem(f, super_region) ==
    LET split == Split(super_region, " ")
    IN  IF Len(split) < 2 THEN Raise(f, "IndexError")
        ELSE LET a == Fresh(DOMAIN f.eng.super_region_objs)
                 eng1 == [f.eng EXCEPT
                            !.super_region_objs =
                                (a :> NewSuperRegion(split[1], split[2])) @@ @,
                            !.super_regions = (split[1] :> a) @@ @]
             IN  Invoked([f EXCEPT !.eng = eng1],
                         Call("per_setup_super_region", a, 0, split[2], 0))

on_setup_map_super_regions(f, super_regions) ==
    LET g == ForEach(SuperRegionItem, f, super_regions)
    IN  IF g.err # "none" THEN g
        ELSE Invoked(g, Call("on_setup_super_region", 0, 0, <<>>, 0))

\* the body of the loop of on_setup_map_regions
RegionItem(f, region) ==
    LET split == Split(region, " ")
    IN  IF Len(split) < 2 THEN Raise(f, "IndexError")
        ELSE IF split[2] \notin DOMAIN f.eng.super_regions THEN Raise(f, "KeyError")
        ELSE LET super_region == f.eng.super_regions[split[2]]
                 a == Fresh(DOMAIN f.eng.region_objs)
                 eng1 == [f.eng EXCEPT
                            !.region_objs =
                                (a :> NewRegion(split[1], super_region)) @@ @,
                            !.regions = (split[1] :> a) @@ @]
             IN  Invoked([f EXCEPT !.eng = eng1],
                         Call("per_setup_region", super_region, a, <<>>, 0))

on_setup_map_regions(f, regions) ==
    LET g == ForEach(RegionItem, f, regions)
    IN  IF g.err # "none" THEN g
        ELSE Invoked(g, Call("on_setup_region", 0, 0, <<>>, 0))

\* the inner loop of on_setup_map_neighbors without line 332: the region is
\* not added to the list of its neighbour
NeighborItem_one_way(f, region, neighbor) ==
    IF neighbor \notin DOMAIN f.eng.regions THEN Raise(f, "KeyError")
    ELSE LET new_neighbor == f.eng.regions[neighbor]
             objs1 == [f.eng.region_objs EXCEPT
                          ![region].neighbours = Append(@, new_neighbor)]
         IN  Invoked([f EXCEPT !.eng.region_objs = objs1],
                     Call("per_setup_neighbor", region, new_neighbor, <<>>, 0))

\* the body of the inner loop of on_setup_map_neighbors
NeighborItem(f, region, neighbor) ==
    IF neighbor \notin DOMAIN f.eng.regions THEN Raise(f, "KeyError")
    ELSE LET new_neighbor == f.eng.regions[neighbor]
             objs1 == [f.eng.region_objs EXCEPT
                          ![region].neighbours = Append(@, new_neighbor)]
             objs2 == [objs1 EXCEPT
                          ![new_neighbor].neighbours = Append(@, region)]
         IN  Invoked([f EXCEPT !.eng.region_objs = objs2],
                     Call("per_setup_neighbor", region, new_neighbor, <<>>, 0))

\* the body of the outer loop of on_setup_map_neighbors
NeighborBlock(f, block) ==
    LET split == Split(block, " ")
    IN  IF split[1] \notin DOMAIN f.eng.regions THEN Raise(f, "KeyError")
        ELSE IF Len(split) < 2 THEN Raise(f, "IndexError")
        ELSE LET region == f.eng.regions[split[1]]
             IN  ForEach(LAMBDA g, n : NeighborItem(g, region, n),
                         f, Split(split[2], ","))

on_setup_map_neighbors(f, neighbors) ==
    LET g == ForEach(NeighborBlock, f, neighbors)
    IN  IF g.err # "none" THEN g
        ELSE Invoked(g, Call("on_setup_neighbor", 0, 0, <<>>, 0))

on_settings_your_bot(f, name) ==
    Invoked([f EXCEPT !.eng.me = name],
            Call("on_setting_me", 0, 0, name, 0))

on_settings_opponent_bot(f, name) ==
    Invoked([f EXCEPT !.eng.opponent = name],
            Call("on_setting_opponent", 0, 0, name, 0))

on_settings_starting_armies(f, armies) ==
    IF ~IsInt(armies) THEN Raise(f, "ValueError")
    ELSE Invoked([f EXCEPT !.eng.starting_armies = ParseInt(armies)],
                 Call("on_setting_starting_armies", 0, 0, <<>>, ParseInt(armies)))

\* the loop of on_update_map with region.armies += int(split[2]): the armies
\* of an update are added to those the region has
UpdateItem_accumulate(f, update) ==
    LET split == Split(update, " ")
    IN  IF split[1] \notin DOMAIN f.eng.regions THEN Raise(f, "KeyError")
        ELSE IF Len(split) < 2 THEN Raise(f, "IndexError")
        ELSE LET region == f.eng.regions[split[1]]
                 f1 == [f EXCEPT !.eng.region_objs[region].owner = split[2]]
             IN  IF Len(split) < 3 THEN Raise(f1, "IndexError")
                 ELSE IF ~IsInt(split[3]) THEN Raise(f1, "ValueError")
                 ELSE Invoked([f1 EXCEPT !.eng.region_objs[region].armies =
                                             @ + ParseInt(split[3])],
                              Call("per_update_map", region, 0, split[2],
                                   f.eng.region_objs[region].armies
                                       + ParseInt(split[3])))

\* the loop of on_update_map with the call of per_update_map moved before the
\* two assignments: the callback runs before its item is applied
UpdateItem_callback_first(f, update) ==
    LET split == Split(update, " ")
    IN  IF split[1] \notin DOMAIN f.eng.regions THEN Raise(f, "KeyError")
        ELSE IF Len(split) < 3 THEN Raise(f, "IndexError")
        ELSE IF ~IsInt(split[3]) THEN Raise(f, "ValueError")
        ELSE LET region == f.eng.regions[split[1]]
                 g == Invoked(f, Call("per_update_map", region, 0, split[2],
                                      ParseInt(split[3])))
             IN  [g EXCEPT !.eng.region_objs[region].owner = split[2],
                           !.eng.region_objs[region].armies = ParseInt(split[3])]

\* the body of the loop of on_update_map
UpdateItem(f, update) ==
    LET split == Split(update, " ")
    IN  IF split[1] \notin DOMAIN f.eng.regions THEN Raise(f, "KeyError")
        ELSE IF Len(split) < 2 THEN Raise(f, "IndexError")
        ELSE LET region == f.eng.regions[split[1]]
                 \* region.owner = split[1]
                 f1 == [f EXCEPT !.eng.region_objs[region].owner = split[2]]
             IN  IF Len(split) < 3 THEN Raise(f1, "IndexError")
                 ELSE IF ~IsInt(split[3]) THEN Raise(f1, "ValueError")
                 ELSE \* region.armies = int(split[2])
                      Invoked([f1 EXCEPT !.eng.region_objs[region].armies =
                                             ParseInt(split[3])],
                              Call("per_update_map", region, 0, split[2],
                                   ParseInt(split[3])))

on_update_map(f, updates) ==
    LET g == ForEach(UpdateItem, f, updates)
    IN  IF g.err # "none" THEN g
        ELSE Invoked(g, Call("on_update_map", 0, 0, <<>>, 0))

\* The first loop of on_opponent_moves.  temp[1] is 'place_armies' compares
\* the identity of two string objects; for a piece made by str.split that
\* equals the literal the outcome depends on the interpreter (CPython makes
\* a new object, so it is False), for any other piece it is False.  same[k]
\* is the outcome for the k-th block when the strings are equal.
IsLiteral(piece, literal, outcome) == piece = literal /\ outcome

Placements(args, same) ==
    SelectSeq([k \in 1..Len(args) |-> [block |-> args[k], k |-> k]],
              LAMBDA x : LET temp == Split(x.block, " ")
                         IN  IsLiteral(temp[2], W_place_armies, same[x.k]))

AttacksOrTransfers(args, same) ==
    SelectSeq([k \in 1..Len(args) |-> [block |-> args[k], k |-> k]],
              LAMBDA x : LET temp == Split(x.block, " ")
                         IN  /\ ~IsLiteral(temp[2], W_place_armies, same[x.k])
                             /\ IsLiteral(temp[2], W_attack_transfer, same[x.k]))

\* the loops of on_opponent_moves with line 397 (region.armies += armies) not
\* commented out: the Engine applies the move of the opponent to the region
OpponentItem_applied(f, block, cb) ==
    LET temp == Split(block, " ")
    IN  IF Len(temp) < 3 THEN Raise(f, "IndexError")
        ELSE IF temp[3] \notin DOMAIN f.eng.regions THEN Raise(f, "KeyError")
        ELSE IF Len(temp) < 4 THEN Raise(f, "IndexError")
        ELSE IF ~IsInt(temp[4]) THEN Raise(f, "ValueError")
        ELSE Invoked([f EXCEPT !.eng.region_objs[f.eng.regions[temp[3]]].armies =
                                   @ + ParseInt(temp[4])],
                     Call(cb, f.eng.regions[temp[3]], 0, <<>>, ParseInt(temp[4])))

\* the body of the second and of the third loop of on_opponent_moves
OpponentItem(f, block, cb) ==
    LET temp == Split(block, " ")
    IN  IF Len(temp) < 3 THEN Raise(f, "IndexError")
        ELSE IF temp[3] \notin DOMAIN f.eng.regions THEN Raise(f, "KeyError")
        ELSE IF Len(temp) < 4 THEN Raise(f, "IndexError")
        ELSE IF ~IsInt(temp[4]) THEN Raise(f, "ValueError")
        ELSE Invoked(f, Call(cb, f.eng.regions[temp[3]], 0, <<>>, ParseInt(temp[4])))

on_opponent_moves(f, args, same) ==
    IF \E k \in 1..Len(args) : Len(Split(args[k], " ")) < 2
    THEN Raise(f, "IndexError")
    ELSE
    LET placements == Placements(args, same)
        attacks_or_transfers == AttacksOrTransfers(args, same)
        g1 == ForEach(LAMBDA g, x : OpponentItem(g, x.block, "per_opponent_place_armies"),
                      f, placements)
        g2 == IF g1.err # "none" THEN g1
              ELSE Invoked(g1, Call("on_opponent_place_armies", 0, 0, <<>>, 0))
        g3 == IF g2.err # "none" THEN g2
              ELSE ForEach(LAMBDA g, x : OpponentItem(g, x.block,
                                                       "per_opponent_attack_or_move"),
                           g2, attacks_or_transfers)
    IN  IF g3.err # "none" THEN g3
        ELSE Invoked(g3, Call("on_opponent_attack_or_move", 0, 0, <<>>, 0))

\* on_pick_starting_regions up to the call of the decision callback
on_pick_starting_regions(f, regions) ==
    IF Len(regions) = 0 THEN Raise(f, "IndexError")
    ELSE LET time == regions[1]
             ids == Tail(regions)
         IN  IF \E x \in 1..Len(ids) : ids[x] \notin DOMAIN f.eng.regions
             THEN Raise(f, "KeyError")
             ELSE LET temp_regions == [x \in 1..Len(ids) |-> f.eng.regions[ids[x]]]
                  IN  Invoked(f, [Call("on_pick_starting_regions", 0, 0, time, 0)
                                    EXCEPT !.objs = temp_regions])

\* on_go_place_armies up to the call of the decision callback
on_go_place_armies(f, time) ==
    Invoked(f, Call("on_go_place_armies", 0, 0, time, 0))

\* on_go_attack_or_transfer up to the call of the decision callback
on_go_attack_or_transfer(f, time) ==
    Invoked(f, Call("on_go_attack_or_transfer", 0, 0, time, 0))

\* ------------------------------------------------------------------------
\* The response queue
\* ------------------------------------------------------------------------

add_response(eng, message) == [eng EXCEPT !.responses = Append(@, message)]

\* do_no_moves with self.responses.append('No moves'): the token is added to
\* the queue, what was queued stays
do_no_moves_append(eng) == add_response(eng, NoMoves)

do_no_moves(eng) == [eng EXCEPT !.responses = << NoMoves >>]

\* regions: the texts str(n) of the regions given
do_starting_regions(eng, regions) ==
    [eng EXCEPT !.responses = << Join(regions, SP) >>]

do_placements(eng, region, troop_count) ==
    add_response(eng,
        Str(eng.me) \o SP \o W_place_armies \o SP
            \o eng.region_objs[region].region_id \o SP \o ToDecimal(troop_count))

do_attack_or_transfer(eng, source, target, troop_count) ==
    add_response(eng,
        Str(eng.me) \o SP \o W_attack_transfer \o SP
            \o eng.region_objs[source].region_id \o SP
            \o eng.region_objs[target].region_id \o SP \o ToDecimal(troop_count))

\* respond without lines 253-254: an empty queue is written as it is, an
\* empty line
respond_no_substitute(f) ==
    [f EXCEPT !.out = Append(@, Join(f.eng.responses, <<",">>) \o NL),
              !.eng.responses = <<>>]

\* respond that returns at once when the queue is empty: nothing is written
\* for the turn
respond_skip_empty(f) ==
    IF Len(f.eng.responses) = 0 THEN f
    ELSE [f EXCEPT !.out = Append(@, Join(f.eng.responses, <<",">>) \o NL),
                   !.eng.responses = <<>>]

\* respond that returns after writing the substituted "No moves", before
\* line 258: the token stays in the queue
respond_keep_no_moves(f) ==
    IF Len(f.eng.responses) = 0
    THEN [f EXCEPT !.out = Append(@, NoMoves \o NL),
                   !.eng = do_no_moves(f.eng)]
    ELSE [f EXCEPT !.out = Append(@, Join(f.eng.responses, <<",">>) \o NL),
                   !.eng.responses = <<>>]

\* Engine.respond: the responses, joined, are written as one line to the
\* standard output and the queue is emptied
respond(f) ==
    LET eng1 == IF Len(f.eng.responses) = 0 THEN do_no_moves(f.eng) ELSE f.eng
    IN  [f EXCEPT !.out = Append(@, Join(eng1.responses, <<",">>) \o NL),
                  !.eng = [eng1 EXCEPT !.responses = <<>>]]

\* on_pick_starting_regions, on_go_place_armies and on_go_attack_or_transfer
\* after their decision callback has returned: self.respond()
Resume(method, f) == respond(f)

\* ------------------------------------------------------------------------
\* The lines the game server sends
\* ------------------------------------------------------------------------

\* A record of a line: a number id, a number n, a name, a verb and a list of
\* neighbour ids (0 and <<>> where the kind of line has none)
Item(id, n, name, verb, nbrs) ==
    [id |-> id, n |-> n, name |-> name, verb |-> verb, nbrs |-> nbrs]

P1 == <<"p","1">>
P2 == <<"p","2">>

\* (id, reward)
SuperRegionItems == { Item(1, 5, <<>>, <<>>, <<>>), Item(2, 12, <<>>, <<>>, <<>>) }

\* (id, superRegionId)
RegionItems == { Item(10, 1, <<>>, <<>>, <<>>), Item(11, 2, <<>>, <<>>, <<>>) }

\* (id, neighborId[,neighborId...])
NeighborItems ==
    { Item(10, 0, <<>>, <<>>, <<11>>), Item(11, 0, <<>>, <<>>, <<10, 11>>),
      Item(11, 0, <<>>, <<>>, <<11>>) }

\* (id, owner, armies)
UpdateItems ==
    { Item(10, 5, P1, <<>>, <<>>), Item(10, 3, P2, <<>>, <<>>),
      Item(11, 3, P2, <<>>, <<>>) }

\* (name, verb, id, armies)
OpponentItems ==
    { Item(10, 3, P2, W_place_armies, <<>>), Item(11, 2, P2, W_attack_transfer, <<>>) }

\* candidate region ids of pick_starting_regions
PickItems == { Item(10, 0, <<>>, <<>>, <<>>), Item(11, 0, <<>>, <<>>, <<>>) }

\* the lists of at most MaxItems records
Lists(U) == UNION { [1..k -> U] : k \in 0..MaxItems }

Msg(kind, items, num, name) ==
    [kind |-> kind, items |-> items, num |-> num, name |-> name]

\* lines that are no message of the protocol: an empty line, an unknown
\* word, a starting_armies line without a number
RawTexts ==
    { <<>>,
      <<"f","o","o">>,
      W_settings \o SP \o W_starting_armies \o SP \o <<"x">> }

Messages ==
    { Msg("setup_map_super_regions", l, 0, <<>>) : l \in Lists(SuperRegionItems) }
    \cup { Msg("setup_map_regions", l, 0, <<>>) : l \in Lists(RegionItems) }
    \cup { Msg("setup_map_neighbors", l, 0, <<>>) : l \in Lists(NeighborItems) }
    \cup { Msg("update_map", l, 0, <<>>) : l \in Lists(UpdateItems) }
    \cup { Msg("opponent_moves", l, 0, <<>>) : l \in Lists(OpponentItems) }
    \cup { Msg("pick_starting_regions", l, 2000, <<>>) : l \in Lists(PickItems) }
    \cup { Msg("settings_your_bot", <<>>, 0, P1),
           Msg("settings_opponent_bot", <<>>, 0, P2),
           Msg("settings_starting_armies", <<>>, 5, <<>>),
           Msg("go_place_armies", <<>>, 2000, <<>>),
           Msg("GO_PLACE_ARMIES", <<>>, 2000, <<>>),
           Msg("go_attack_or_transfer", <<>>, 2000, <<>>) }
    \cup { Msg("raw", <<>>, 0, t) : t \in RawTexts }

TriggerKinds ==
    {"pick_starting_regions", "go_place_armies", "GO_PLACE_ARMIES",
     "go_attack_or_transfer"}

\* the text of one record
RenderItem(kind, it) ==
    CASE kind \in {"setup_map_super_regions", "setup_map_regions"} ->
            ToDecimal(it.id) \o SP \o ToDecimal(it.n)
      [] kind = "setup_map_neighbors" ->
            ToDecimal(it.id) \o SP
                \o Join([k \in 1..Len(it.nbrs) |-> ToDecimal(it.nbrs[k])], <<",">>)
      [] kind = "update_map" ->
            ToDecimal(it.id) \o SP \o it.name \o SP \o ToDecimal(it.n)
      [] kind = "opponent_moves" ->
            it.name \o SP \o it.verb \o SP \o ToDecimal(it.id) \o SP \o ToDecimal(it.n)
      [] kind = "pick_starting_regions" -> ToDecimal(it.id)

RenderItems(m) ==
    Join([k \in 1..Len(m.items) |-> RenderItem(m.kind, m.items[k])], SP)

\* the line as sys.stdin.readline() returns it, the newline included
Render(m) ==
    (CASE m.kind = "setup_map_super_regions" ->
            W_setup_map \o SP \o W_super_regions \o SP \o RenderItems(m)
      [] m.kind = "setup_map_regions" ->
            W_setup_map \o SP \o W_regions \o SP \o RenderItems(m)
      [] m.kind = "setup_map_neighbors" ->
            W_setup_map \o SP \o W_neighbors \o SP \o RenderItems(m)
      [] m.kind = "update_map" -> W_update_map \o SP \o RenderItems(m)
      [] m.kind = "opponent_moves" -> W_opponent_moves \o SP \o RenderItems(m)
      [] m.kind = "pick_starting_regions" ->
            W_pick_starting_regions \o SP \o ToDecimal(m.num)
                \o (IF Len(m.items) = 0 THEN <<>> ELSE SP \o RenderItems(m))
      [] m.kind = "settings_your_bot" ->
            W_settings \o SP \o W_your_bot \o SP \o m.name
      [] m.kind = "settings_opponent_bot" ->
            W_settings \o SP \o W_opponent_bot \o SP \o m.name
      [] m.kind = "settings_starting_armies" ->
            W_settings \o SP \o W_starting_armies \o SP \o ToDecimal(m.num)
      [] m.kind = "go_place_armies" ->
            W_go \o SP \o W_place_armies \o SP \o ToDecimal(m.num)
      [] m.kind = "GO_PLACE_ARMIES" ->
            UpperText(W_go \o SP \o W_place_armies) \o SP \o ToDecimal(m.num)
      [] m.kind = "go_attack_or_transfer" ->
            W_go \o SP \o W_attack_transfer \o SP \o ToDecimal(m.num)
      [] m.kind = "raw" -> m.name)
    \o NL

\* no line read yet
NoMsg == Msg("none", <<>>, 0, <<>>)

\* ------------------------------------------------------------------------
\* Engine._parse
\* ------------------------------------------------------------------------

\* pattern.search(message) for the pattern of a message handler
Match(method, message) ==
    CASE method = "on_go_attack_or_transfer" -> Pattern_on_go_attack_or_transfer(message)
      [] method = "on_go_place_armies" -> Pattern_on_go_place_armies(message)
      [] method = "on_opponent_moves" -> Pattern_on_opponent_moves(message)
      [] method = "on_pick_starting_regions" -> Pattern_on_pick_starting_regions(message)
      [] method = "on_settings_opponent_bot" -> Pattern_on_settings_opponent_bot(message)
      [] method = "on_settings_starting_armies" -> Pattern_on_settings_starting_armies(message)
      [] method = "on_settings_your_bot" -> Pattern_on_settings_your_bot(message)
      [] method = "on_setup_map_neighbors" -> Pattern_on_setup_map_neighbors(message)
      [] method = "on_setup_map_regions" -> Pattern_on_setup_map_regions(message)
      [] method = "on_setup_map_super_regions" -> Pattern_on_setup_map_super_regions(message)
      [] method = "on_update_map" -> Pattern_on_update_map(message)

\* the item pattern (sub_pattern) of a message handler, "none" without one
SubPattern(method) ==
    CASE method \in {"on_setup_map_super_regions", "on_setup_map_regions"} -> "id_digit"
      [] method = "on_setup_map_neighbors" -> "neighbors"
      [] method = "on_update_map" -> "update"
      [] method = "on_opponent_moves" -> "opponent"
      [] method = "on_pick_starting_regions" -> "digits"
      [] OTHER -> "none"

\* The handler methods whose pattern matches the message, from the i-th on, in
\* the order of the loop of _parse, each with the argument it is called
\* with: re.findall(sub_pattern, group) if it has an item pattern, else the
\* group
RECURSIVE MatchesFrom(_, _)
MatchesFrom(message, i) ==
    IF i > Len(HandlerMethods) THEN <<>>
    ELSE LET method == HandlerMethods[i]
             match == Match(method, message)
         IN  (IF match.matched
              THEN << [index |-> i,
                       arg |-> IF SubPattern(method) = "none" THEN match.group
                               ELSE FindAll(SubPattern(method), match.group)] >>
              ELSE <<>>)
             \o MatchesFrom(message, i + 1)

\* What the patterns make of each line the server can send.  Matching does
\* not depend on the state of the Engine, so it is computed once per line.
Inputs ==
    { [msg |-> m, line |-> Render(m), matches |-> MatchesFrom(Render(m), 1)] :
        m \in Messages }

Matches(message) == (CHOOSE in \in Inputs : in.line = message).matches

\* temp(groups) or temp(group): the handler called with what the patterns
\* extracted
Invoke(method, f, arg, same) ==
    CASE method = "on_go_attack_or_transfer" -> on_go_attack_or_transfer(f, arg)
      [] method = "on_go_place_armies" -> on_go_place_armies(f, arg)
      [] method = "on_opponent_moves" -> on_opponent_moves(f, arg, same)
      [] method = "on_pick_starting_regions" -> on_pick_starting_regions(f, arg)
      [] method = "on_settings_opponent_bot" -> on_settings_opponent_bot(f, arg)
      [] method = "on_settings_starting_armies" -> on_settings_starting_armies(f, arg)
      [] method = "on_settings_your_bot" -> on_settings_your_bot(f, arg)
      [] method = "on_setup_map_neighbors" -> on_setup_map_neighbors(f, arg)
      [] method = "on_setup_map_regions" -> on_setup_map_regions(f, arg)
      [] method = "on_setup_map_super_regions" -> on_setup_map_super_regions(f, arg)
      [] method = "on_update_map" -> on_update_map(f, arg)

\* The loop of _parse over the handler methods after the i-th: every method
\* whose pattern matches is called, there is no break.  The loop stops at an
\* exception, and is suspended (at = the index of the method) while a
\* decision callback runs.
RECURSIVE ParseLoop(_, _, _)
ParseLoop(f, matches, same) ==
    IF Len(matches) = 0 THEN f
    ELSE LET method == HandlerMethods[Head(matches).index]
             g == Invoke(method, [f EXCEPT !.fired = Append(@, method)],
                         Head(matches).arg, same)
         IN  IF g.err # "none" THEN g
             ELSE IF method \in TriggerMethods
             THEN [g EXCEPT !.at = Head(matches).index]
             ELSE ParseLoop(g, Tail(matches), same)

ParseFrom(f, message, i, same) ==
    ParseLoop(f, SelectSeq(Matches(message), LAMBDA x : x.index >= i), same)

\* the outcomes of the identity comparisons of on_opponent_moves for a
\* message: one per block
IsOutcomes(message) ==
    LET opp == SelectSeq(Matches(message),
                         LAMBDA x : HandlerMethods[x.index] = "on_opponent_moves")
    IN  IF Len(opp) > 0 THEN [1..Len(opp[1].arg) -> BOOLEAN] ELSE { <<>> }

\* ------------------------------------------------------------------------
\* The state
\* ------------------------------------------------------------------------

VARIABLES
    engine,      \* the Engine object and the objects it refers to
    overridden,  \* for each mandatory decision callback, whether the Handler
                 \* subclass overrides it: fixed when the Handler is made,
                 \* "unknown" here until the first call of the callback shows it
    closed,      \* sys.stdin.closed
    pc,          \* where Engine.run is: "readline", "parse", "callback",
                 \* "returned", "raised"
    line,        \* the line of the current iteration of the loop of run
    at,          \* the index in HandlerMethods of the handler that waits for
                 \* its decision callback (0: none)
    err,         \* the exception that ended run ("none": none)
    nCalls,      \* builder calls made by the decision callback of the current line
    msg,         \* the message the server sent as the current line
    calls,       \* the callbacks of the Handler invoked for the current line
    fired,       \* the message handlers called for the current line
    nRead,       \* lines read so far
    triggers,    \* turn-trigger lines the server sent so far
    written,     \* lines written to the standard output so far
    lastOut,     \* the lines written to the standard output for the current line
    eofReads     \* calls of readline that returned '' at end-of-input

vars ==
    << engine, overridden, closed, pc, line, at, err, nCalls, msg, calls,
       fired, nRead, triggers, written, lastOut, eofReads >>

Init ==
    /\ engine = NewEngine
    /\ overridden = [cb \in MandatoryCallbacks |-> "unknown"]
    /\ closed = FALSE
    /\ pc = "readline"
    /\ line = <<>>
    /\ at = 0
    /\ err = "none"
    /\ nCalls = 0
    /\ msg = NoMsg
    /\ calls = <<>>
    /\ fired = <<>>
    /\ nRead = 0
    /\ triggers = 0
    /\ written = 0
    /\ lastOut = <<>>
    /\ eofReads = 0

\* ------------------------------------------------------------------------
\* Engine.run
\* ------------------------------------------------------------------------

\* sys.stdin.readline() returns a line; a line has at least its newline, so
\* the test len(message) == 0 fails and the line goes to _parse
ReadLine(in) ==
    /\ pc = "readline"
    /\ ~closed
    /\ eofReads = 0
    /\ nRead < MaxLines
    /\ line' = in.line
    /\ msg' = in.msg
    /\ nRead' = nRead + 1
    /\ triggers' = IF in.msg.kind \in TriggerKinds THEN triggers + 1 ELSE triggers
    /\ calls' = <<>>
    /\ fired' = <<>>
    /\ lastOut' = <<>>
    /\ nCalls' = 0
    /\ pc' = IF Len(in.line) = 0 THEN "readline" ELSE "parse"
    /\ UNCHANGED << engine, overridden, closed, at, err, written, eofReads >>

\* sys.stdin.readline() returns '' at end-of-input: len(message) == 0, so
\* the loop continues with its next iteration
ReadEof ==
    /\ pc = "readline"
    /\ ~closed
    /\ line' = <<>>
    /\ eofReads' = IF eofReads < MaxEofReads THEN eofReads + 1 ELSE eofReads
    /\ pc' = "readline"
    /\ UNCHANGED << engine, overridden, closed, at, err, nCalls, msg, calls,
                    fired, nRead, triggers, written, lastOut >>

\* while not sys.stdin.closed: the loop ends when the stream object is closed
LoopExit ==
    /\ pc = "readline"
    /\ closed
    /\ pc' = "returned"
    /\ UNCHANGED << engine, overridden, closed, line, at, err, nCalls, msg,
                    calls, fired, nRead, triggers, written, lastOut, eofReads >>

\* except KeyboardInterrupt: return
KeyboardInterrupt ==
    /\ pc \in {"readline", "callback"}
    /\ pc' = "returned"
    /\ UNCHANGED << engine, overridden, closed, line, at, err, nCalls, msg,
                    calls, fired, nRead, triggers, written, lastOut, eofReads >>

\* run with the Engine put back as it was before the line when _parse raises:
\* a line that fails changes nothing
Continue_restore(g) ==
    /\ engine' = IF g.err # "none" THEN engine ELSE Collect(g.eng)
    /\ IF /\ g.err = "none"
          /\ g.at # 0
          /\ HandlerMethods[g.at] \in MandatoryCallbacks
          /\ overridden[HandlerMethods[g.at]] = "unknown"
       THEN \E v \in {"yes", "no"} :
               overridden' = [overridden EXCEPT ![HandlerMethods[g.at]] = v]
       ELSE overridden' = overridden
    /\ calls' = g.calls
    /\ fired' = g.fired
    /\ err' = g.err
    /\ at' = g.at
    /\ lastOut' = g.out
    /\ written' = written + (Len(g.out) - Len(lastOut))
    /\ pc' = IF g.err # "none" THEN "raised"
             ELSE IF g.at # 0 THEN "callback"
             ELSE "readline"

\* where run goes on after the frame g of _parse
Continue(g) ==
    /\ engine' = Collect(g.eng)
    /\ IF /\ g.err = "none"
          /\ g.at # 0
          /\ HandlerMethods[g.at] \in MandatoryCallbacks
          /\ overridden[HandlerMethods[g.at]] = "unknown"
       THEN \E v \in {"yes", "no"} :
               overridden' = [overridden EXCEPT ![HandlerMethods[g.at]] = v]
       ELSE overridden' = overridden
    /\ calls' = g.calls
    /\ fired' = g.fired
    /\ err' = g.err
    /\ at' = g.at
    /\ lastOut' = g.out
    /\ written' = written + (Len(g.out) - Len(lastOut))
    /\ pc' = IF g.err # "none" THEN "raised"
             ELSE IF g.at # 0 THEN "callback"
             ELSE "readline"

\* self._parse(message), up to its end, an exception or a decision callback
Parse ==
    /\ pc = "parse"
    /\ \E same \in IsOutcomes(line) :
          Continue(ParseFrom(Frame(engine), line, 1, same))
    /\ UNCHANGED << closed, line, msg, nRead, triggers, nCalls, eofReads >>

\* ------------------------------------------------------------------------
\* The decision callback of the Handler subclass
\* ------------------------------------------------------------------------

\* the decision callback that is running
Callback == HandlerMethods[at]

\* Handler.on_go_place_armies and Handler.on_go_attack_or_transfer with "pass"
\* for a body, like the other callbacks of Handler: a callback that is not
\* overridden returns
InCollaborator_pass == pc = "callback"

\* code of the Handler subclass is running: the callback is overridden (the
\* on_pick_starting_regions of Handler is "pass", an override that does
\* nothing)
InCollaborator ==
    /\ pc = "callback"
    /\ Callback \in MandatoryCallbacks => overridden[Callback] = "yes"

Builder(eng) ==
    /\ InCollaborator
    /\ nCalls < MaxCalls
    /\ engine' = eng
    /\ nCalls' = nCalls + 1
    /\ UNCHANGED << overridden, closed, pc, line, at, err, msg, calls, fired,
                    nRead, triggers, written, lastOut, eofReads >>

\* the texts a callback passes to add_response
ResponseTexts == { <<"x">> }

\* the troop counts a callback passes
TroopCounts == { 1 }

\* the Region objects a callback can get from engine.regions
Known == Range(engine.regions)

AddResponse == \E t \in ResponseTexts : Builder(add_response(engine, t))

DoNoMoves == Builder(do_no_moves(engine))

\* the regions on_pick_starting_regions handed to the running callback
Offered ==
    IF pc = "callback" /\ Callback = "on_pick_starting_regions"
    THEN calls[Len(calls)].objs
    ELSE <<>>

\* the callback answers with the ids of the regions offered
DoStartingRegions ==
    Builder(do_starting_regions(engine,
                [x \in 1..Len(Offered) |-> engine.region_objs[Offered[x]].region_id]))

DoPlacements ==
    \E r \in Known, n \in TroopCounts : Builder(do_placements(engine, r, n))

DoAttackOrTransfer ==
    \E r \in Known, t \in Known, n \in TroopCounts :
        Builder(do_attack_or_transfer(engine, r, t, n))

\* the callback closes the standard input (before its builder calls: the
\* two do not interfere, so the order does not matter)
CloseStdin ==
    /\ InCollaborator
    /\ nCalls = 0
    /\ ~closed
    /\ closed' = TRUE
    /\ UNCHANGED << engine, overridden, pc, line, at, err, nCalls, msg, calls,
                    fired, nRead, triggers, written, lastOut, eofReads >>

\* the decision callback returns: self.respond(), and _parse goes on with
\* the handler methods that follow
CallbackReturn ==
    /\ InCollaborator
    /\ \E same \in IsOutcomes(line) :
          Continue(ParseFrom(Resume(Callback,
                                    [Frame(engine) EXCEPT !.calls = calls,
                                                          !.fired = fired,
                                                          !.out = lastOut]),
                             line, at + 1, same))
    /\ UNCHANGED << closed, line, msg, nRead, triggers, nCalls, eofReads >>

\* Handler.on_go_place_armies and Handler.on_go_attack_or_transfer: raise
\* NotImplementedError, which nothing catches
CallbackRaise ==
    /\ pc = "callback"
    /\ Callback \in MandatoryCallbacks
    /\ overridden[Callback] = "no"
    /\ err' = "NotImplementedError"
    /\ pc' = "raised"
    /\ UNCHANGED << engine, overridden, closed, line, at, nCalls, msg, calls,
                    fired, nRead, triggers, written, lastOut, eofReads >>

Next ==
    \/ \E in \in Inputs : ReadLine(in)
    \/ ReadEof
    \/ LoopExit
    \/ KeyboardInterrupt
    \/ Parse
    \/ AddResponse
    \/ DoNoMoves
    \/ DoStartingRegions
    \/ DoPlacements
    \/ DoAttackOrTransfer
    \/ CloseStdin
    \/ CallbackReturn
    \/ CallbackRaise

Spec == Init /\ [][Next]_vars

\* ------------------------------------------------------------------------
\* Properties
\* ------------------------------------------------------------------------

\* the turn-trigger line being handled has not been answered yet
Pending == IF msg.kind \in TriggerKinds THEN 1 ELSE 0

\* the first handler method, in the order of the registry, whose pattern
\* matches the text: what an exclusive dispatch calls
FirstMatching(text) ==
    LET S == { i \in DOMAIN HandlerMethods : Match(HandlerMethods[i], text).matched }
    IN  IF S = {} THEN <<>>
        ELSE << HandlerMethods[CHOOSE i \in S : \A j \in S : i <= j] >>

ExpectedFired == [m \in Messages |-> FirstMatching(Render(m))]

\* the records of the current line that name the region id
Naming(id) == { k \in 1..Len(msg.items) : ToDecimal(msg.items[k].id) = id }

\* the last record of the current line that names the region id
LastNaming(id) == msg.items[CHOOSE k \in Naming(id) : \A j \in Naming(id) : j <= k]

\* the per-item calls an opponent_moves line asks for: one for each record
\* with the verb, in the order of the line
OpponentCalls(verb, cb) ==
    LET sel == SelectSeq(msg.items, LAMBDA it : it.verb = verb)
    IN  [k \in 1..Len(sel) |->
            Call(cb, engine.regions[ToDecimal(sel[k].id)], 0, <<>>, sel[k].n)]

\* C1: when the input stream is at end-of-input, run returns without
\* attempting further I/O: after a readline has returned '' at end-of-input
\* no other readline is made.
C1_NoReadAfterEof == eofReads <= 1

\* C2: when the decision callback of a turn-trigger line returns without
\* having called a builder, the one line written for the turn is "No moves"
\* and the response queue is empty afterwards.
C2_NoMovesLine ==
    (pc = "readline" /\ msg.kind \in TriggerKinds /\ nCalls = 0)
        => (lastOut = << NoMoves \o NL >> /\ engine.responses = <<>>)

C2_Witness ==
    /\ pc = "readline"
    /\ msg.kind = "go_place_armies"
    /\ nCalls = 0
    /\ lastOut = << NoMoves \o NL >>
    /\ written = 1

\* C3: each turn-trigger line gets exactly one output line, written after
\* its decision callback has returned and before the next line is read, and
\* no other line gets any: whenever run is about to read, the lines written
\* are as many as the turn-trigger lines read, and while a line is being
\* handled they are as many as the turn-trigger lines before it.
C3_OneLinePerTurn ==
    /\ pc = "readline" => written = triggers
    /\ pc \in {"parse", "callback"} => written = triggers - Pending /\ lastOut = <<>>
    /\ Len(lastOut) <= Pending

C3_Witness ==
    /\ pc = "readline"
    /\ nRead = 3
    /\ triggers = 2
    /\ written = 2
    /\ msg.kind \notin TriggerKinds

\* C4: for every line _parse calls at most one message handler, the first in
\* the order of the registry whose pattern matches.
C4_ExclusiveDispatch ==
    /\ Len(fired) <= 1
    /\ (pc # "parse" /\ msg # NoMsg) => fired = ExpectedFired[msg]

C4_Witness ==
    /\ pc = "readline"
    /\ msg.kind = "update_map"
    /\ fired = << "on_update_map" >>

\* C5: a line that is no message of the protocol, the empty line included,
\* is ignored: handling it changes nothing of the Engine, calls no message
\* handler and no callback, writes nothing and leaves run ready to read the
\* next line.
C5_UnmatchedIgnored ==
    [][(pc = "parse" /\ msg.kind = "raw")
          => /\ engine' = engine
             /\ fired' = <<>>
             /\ calls' = <<>>
             /\ lastOut' = <<>>
             /\ written' = written
             /\ closed' = closed
             /\ err' = "none"
             /\ pc' = "readline"]_vars

C5_Witness ==
    /\ pc = "readline"
    /\ msg.kind = "raw"
    /\ msg.name = <<>>
    /\ nRead = 3
    /\ DOMAIN engine.regions # {}

\* C6: for all registered regions A and B, B is in the neighbour list of A
\* if and only if A is in the neighbour list of B.
C6_NeighborSymmetry ==
    \A a, b \in Range(engine.regions) :
        (b \in Range(engine.region_objs[a].neighbours))
            <=> (a \in Range(engine.region_objs[b].neighbours))

C6_Witness ==
    /\ pc = "readline"
    /\ \E a, b \in Range(engine.regions) :
          /\ a # b
          /\ b \in Range(engine.region_objs[a].neighbours)
          /\ a \in Range(engine.region_objs[b].neighbours)

\* C7: an update_map line over registered regions overwrites: afterwards
\* each region has the owner and the armies of the last record of the line
\* that names it, and a region no record names keeps its owner and armies.
C7_UpdateOverwrites ==
    [][(pc = "parse" /\ msg.kind = "update_map" /\ err' = "none")
          => /\ engine'.regions = engine.regions
             /\ \A id \in DOMAIN engine.regions :
                   LET old == engine.region_objs[engine.regions[id]]
                       new == engine'.region_objs[engine.regions[id]]
                   IN  IF Naming(id) = {}
                       THEN new.owner = old.owner /\ new.armies = old.armies
                       ELSE /\ new.owner = LastNaming(id).name
                            /\ new.armies = LastNaming(id).n]_vars

C7_Witness ==
    /\ pc = "readline"
    /\ msg.kind = "update_map"
    /\ err = "none"
    /\ Len(msg.items) = 2
    /\ msg.items[1].n = 5
    /\ msg.items[2].n = 3
    /\ Cardinality(DOMAIN engine.regions) = 2
    /\ \E a \in Range(engine.regions) :
          /\ engine.region_objs[a].armies = 3
          /\ engine.region_objs[a].owner = P2
    /\ \E a \in Range(engine.regions) :
          /\ engine.region_objs[a].armies = 0
          /\ engine.region_objs[a].owner = Neutral

C9_OpponentCallbacks ==
    (/\ pc = "readline"
     /\ msg.kind = "opponent_moves"
     /\ \A k \in 1..Len(msg.items) :
           ToDecimal(msg.items[k].id) \in DOMAIN engine.regions)
        => calls = OpponentCalls(W_place_armies, "per_opponent_place_armies")
                   \o << Call("on_opponent_place_armies", 0, 0, <<>>, 0) >>
                   \o OpponentCalls(W_attack_transfer, "per_opponent_attack_or_move")
                   \o << Call("on_opponent_attack_or_move", 0, 0, <<>>, 0) >>

\* C10: after a setup_map super_regions line every id the line declares is
\* registered, and the reward of its SuperRegion is the reward the line
\* declares for it (the last one, if the line declares the id twice).
C10_SuperRegionRewards ==
    (pc = "readline" /\ msg.kind = "setup_map_super_regions")
        => \A id \in { ToDecimal(msg.items[k].id) : k \in 1..Len(msg.items) } :
              /\ id \in DOMAIN engine.super_regions
              /\ IsInt(engine.super_region_objs[engine.super_regions[id]].reward)
              /\ ParseInt(engine.super_region_objs[engine.super_regions[id]].reward)
                    = LastNaming(id).n

\* C11: after a setup_map regions line every registered region is in the
\* member collection of the super-region it refers to.
C11_SuperRegionMembers ==
    (pc = "readline" /\ msg.kind = "setup_map_regions")
        => \A id \in DOMAIN engine.regions :
              LET region == engine.region_objs[engine.regions[id]]
              IN  \E k \in DOMAIN engine.super_region_objs[region.super_region].regions :
                     engine.super_region_objs[region.super_region].regions[k]
                        \in {id, engine.regions[id]}

\* C12: a region is created once and never bound again: an id that is
\* registered stays registered, bound to the same Region, and the
\* super-region recorded for it stays the same, whatever line is handled.
C12_RegionsNeverRebound ==
    [][\A id \in DOMAIN engine.regions :
          /\ id \in DOMAIN engine'.regions
          /\ engine'.regions[id] = engine.regions[id]
          /\ engine'.region_objs[engine'.regions[id]].super_region
                = engine.region_objs[engine.regions[id]].super_region]_vars

\* the region ids the records of the current line name
RegionIdsNamed ==
    { ToDecimal(msg.items[k].id) : k \in 1..Len(msg.items) }
        \cup UNION { { ToDecimal(msg.items[k].nbrs[j]) : j \in 1..Len(msg.items[k].nbrs) } :
                        k \in 1..Len(msg.items) }

\* the current line refers to an id that is not registered: a super-region
\* in a setup_map regions line, a region in the other lines
NamesUnregistered ==
    \/ /\ msg.kind = "setup_map_regions"
       /\ \E k \in 1..Len(msg.items) :
             ToDecimal(msg.items[k].n) \notin DOMAIN engine.super_regions
    \/ /\ msg.kind \in {"setup_map_neighbors", "update_map", "opponent_moves",
                        "pick_starting_regions"}
       /\ \E id \in RegionIdsNamed : id \notin DOMAIN engine.regions

\* C13: a line that refers to an unregistered super-region or region raises
\* an error nothing catches: run ends, and no line is written for it.
C13_UnregisteredIsFatal ==
    [][(pc = "parse" /\ NamesUnregistered)
          => /\ pc' = "raised"
             /\ err' = "KeyError"
             /\ written' = written]_vars

\* C14: with a Handler that does not override on_go_place_armies (or
\* on_go_attack_or_transfer) the go line raises NotImplementedError, which
\* ends run with no line written for the turn; the on_pick_starting_regions
\* of Handler does nothing, and the line is answered with "No moves".
C14_UnimplementedCallbacks ==
    [][/\ (/\ pc = "callback"
           /\ Callback \in MandatoryCallbacks
           /\ overridden[Callback] = "no"
           /\ pc' # "returned")
          => /\ pc' = "raised"
             /\ err' = "NotImplementedError"
             /\ engine' = engine
             /\ lastOut' = <<>>
             /\ written' = written
       /\ (/\ pc = "callback"
           /\ Callback = "on_pick_starting_regions"
           /\ nCalls = 0
           /\ pc' \notin {"callback", "returned"})
          => /\ pc' = "readline"
             /\ err' = "none"
             /\ lastOut' = << NoMoves \o NL >>
             /\ written' = written + 1]_vars

C14_Witness ==
    /\ pc = "raised"
    /\ err = "NotImplementedError"
    /\ msg.kind = "go_attack_or_transfer"
    /\ nRead = 2
    /\ triggers = 2
    /\ written = 1

\* C15: the response queue is empty whenever run is about to read a line or
\* is handling one outside a decision callback: it holds tokens only from
\* the start of a decision callback to the flush that follows it.
C15_QueueEmptyBetweenTurns ==
    pc \in {"readline", "parse", "raised"} => engine.responses = <<>>

C15_Witness ==
    /\ pc = "readline"
    /\ msg.kind \in TriggerKinds
    /\ nCalls = 2
    /\ Len(lastOut) = 1
    /\ lastOut[1] # NoMoves \o NL
    /\ engine.responses = <<>>

\* C16: the owner and the armies recorded for a registered region id change
\* only when an update_map line is handled: every other step leaves them as
\* they were.
C16_OnlyUpdateMapChangesOwnership ==
    [][~(pc = "parse" /\ msg.kind = "update_map")
          => \A id \in DOMAIN engine.regions :
                /\ id \in DOMAIN engine'.regions
                /\ engine'.region_objs[engine'.regions[id]].owner
                      = engine.region_objs[engine.regions[id]].owner
                /\ engine'.region_objs[engine'.regions[id]].armies
                      = engine.region_objs[engine.regions[id]].armies]_vars

\* how often x occurs in the list l
Count(x, l) == Cardinality({ k \in DOMAIN l : l[k] = x })

\* how often the step declares the pair of the region ids A and B as
\* neighbours (in either order): the declarations of the line, when a
\* setup_map neighbors line is handled, and none in any other step
Declared(A, B) ==
    IF pc = "parse" /\ msg.kind = "setup_map_neighbors"
    THEN Cardinality(
            { p \in UNION { { <<k, j>> : j \in 1..Len(msg.items[k].nbrs) } :
                              k \in 1..Len(msg.items) } :
                 {ToDecimal(msg.items[p[1]].id),
                  ToDecimal(msg.items[p[1]].nbrs[p[2]])} = {A, B} })
    ELSE 0

\* C17: neighbour declarations are counted, not deduplicated: for two
\* registered regions A and B, B occurs in the neighbour list of A, and A in
\* that of B, as often as the pair has been declared so far.  Step by step:
\* every step adds to both counts the declarations it handles, and a step
\* that handles none leaves them as they are.
C17_NeighborCounts ==
    [][err' = "none"
          => \A A, B \in DOMAIN engine.regions :
                (A # B /\ A \in DOMAIN engine'.regions /\ B \in DOMAIN engine'.regions)
                   => LET a == engine.regions[A]
                          b == engine.regions[B]
                          a1 == engine'.regions[A]
                          b1 == engine'.regions[B]
                      IN  /\ Count(b1, engine'.region_objs[a1].neighbours)
                                = Count(b, engine.region_objs[a].neighbours)
                                     + Declared(A, B)
                          /\ Count(a1, engine'.region_objs[b1].neighbours)
                                = Count(a, engine.region_objs[b].neighbours)
                                     + Declared(A, B)]_vars

\* the frame of _parse for the current line, when it is a line of one handler
\* without identity comparisons: its calls, and what each call has seen
Handled == ParseFrom(Frame(engine), line, 1, <<>>)

\* the items the handler of the current line is called with
HandlerItems == IF Len(Matches(line)) = 0 THEN <<>> ELSE Matches(line)[1].arg

\* the k-th item, split at the blanks
Piece(k, i) == Split(HandlerItems[k], " ")[i]

\* the Engine the callbacks of the current line have seen before the k-th call
SeenBefore(k) == IF k = 1 THEN engine ELSE Handled.seen[k - 1]

\* the owner and the armies the items 1..k of an update_map line give the
\* region bound to id: those of the last of them that names it, else those
\* it had before the line
UpdatedTo(id, k) ==
    LET named == { j \in 1..k : Piece(j, 1) = id }
        last == CHOOSE j \in named : \A i \in named : i <= j
        old == engine.region_objs[engine.regions[id]]
    IN  IF named = {} THEN [owner |-> old.owner, armies |-> old.armies]
        ELSE [owner |-> Piece(last, 2), armies |-> ParseInt(Piece(last, 3))]

\* when the per-item callback of the k-th item runs, the items 1..k have
\* been applied and the items after it have not
SeenAtItem(k) ==
    LET cur == Handled.seen[k]
        call == Handled.calls[k]
    IN  CASE msg.kind = "setup_map_super_regions" ->
                /\ call.cb = "per_setup_super_region"
                /\ Cardinality(DOMAIN cur.super_region_objs)
                      = Cardinality(DOMAIN engine.super_region_objs) + k
                /\ \A j \in 1..k : Piece(j, 1) \in DOMAIN cur.super_regions
                /\ cur.super_regions[Piece(k, 1)] = call.a
                /\ call.a \notin DOMAIN SeenBefore(k).super_region_objs
                /\ cur.regions = engine.regions
          [] msg.kind = "setup_map_regions" ->
                /\ call.cb = "per_setup_region"
                /\ Cardinality(DOMAIN cur.region_objs)
                      = Cardinality(DOMAIN engine.region_objs) + k
                /\ \A j \in 1..k : Piece(j, 1) \in DOMAIN cur.regions
                /\ cur.regions[Piece(k, 1)] = call.b
                /\ call.b \notin DOMAIN SeenBefore(k).region_objs
                /\ cur.super_regions = engine.super_regions
          [] msg.kind = "update_map" ->
                /\ call.cb = "per_update_map"
                /\ call.a = engine.regions[Piece(k, 1)]
                /\ cur.regions = engine.regions
                /\ \A id \in DOMAIN engine.regions :
                      /\ cur.region_objs[engine.regions[id]].owner
                            = UpdatedTo(id, k).owner
                      /\ cur.region_objs[engine.regions[id]].armies
                            = UpdatedTo(id, k).armies

\* the completion callback of the handler of the current line
CompletionCallback ==
    CASE msg.kind = "setup_map_super_regions" -> "on_setup_super_region"
      [] msg.kind = "setup_map_regions" -> "on_setup_region"
      [] msg.kind = "update_map" -> "on_update_map"

\* C18: in on_setup_map_super_regions, on_setup_map_regions and on_update_map
\* the per-item callbacks run in the order of the items, each when its item
\* and those before it have been applied and those after it have not, and
\* the completion callback runs once, after them, also for a line without
\* items.
C18_ItemByItem ==
    [][(/\ pc = "parse"
        /\ msg.kind \in {"setup_map_super_regions", "setup_map_regions", "update_map"}
        /\ err' = "none")
          => LET n == Len(HandlerItems)
             IN  /\ calls' = Handled.calls
                 /\ Len(calls') = n + 1
                 /\ \A k \in 1..n : SeenAtItem(k)
                 /\ calls'[n + 1].cb = CompletionCallback
                 /\ Handled.seen[n + 1] = SeenBefore(n + 1)
                 /\ engine' = Collect(Handled.seen[n + 1])]_vars

C18_Witness ==
    /\ pc = "readline"
    /\ msg.kind = "update_map"
    /\ Len(calls) = 3
    /\ calls[1].cb = "per_update_map"
    /\ calls[1].num = 5
    /\ calls[2].cb = "per_update_map"
    /\ calls[2].num = 3
    /\ calls[3].cb = "on_update_map"

\* the k-th record of the current line names an id that is not registered: the
\* super-region of a setup_map regions record, the region of an update_map
\* record, the region or a neighbour of a setup_map neighbors record
Unregistered(k) ==
    CASE msg.kind = "setup_map_regions" ->
            ToDecimal(msg.items[k].n) \notin DOMAIN engine.super_regions
      [] msg.kind = "update_map" ->
            ToDecimal(msg.items[k].id) \notin DOMAIN engine.regions
      [] msg.kind = "setup_map_neighbors" ->
            \/ ToDecimal(msg.items[k].id) \notin DOMAIN engine.regions
            \/ \E j \in 1..Len(msg.items[k].nbrs) :
                  ToDecimal(msg.items[k].nbrs[j]) \notin DOMAIN engine.regions

\* the first record of the current line that names an unregistered id (0: none)
FirstUnregistered ==
    LET bad == { k \in 1..Len(msg.items) : Unregistered(k) }
    IN  IF bad = {} THEN 0 ELSE CHOOSE k \in bad : \A j \in bad : k <= j

\* the neighbours the k-th item of a setup_map neighbors line names before the
\* first unregistered id of the item (none when its region is unregistered)
NeighborsBefore(k) ==
    LET nb == Split(Piece(k, 2), ",")
        bad == { j \in 1..Len(nb) : nb[j] \notin DOMAIN engine.regions }
        first == CHOOSE j \in bad : \A i \in bad : j <= i
    IN  IF Piece(k, 1) \notin DOMAIN engine.regions THEN <<>>
        ELSE SubSeq(nb, 1, first - 1)

\* the part of the current line before the failing reference of its k-th
\* item: the items 1..k-1 and, in a setup_map neighbors line, the k-th item
\* with the neighbours it names before the failing one
ItemsBefore(k) ==
    LET before == SubSeq(HandlerItems, 1, k - 1)
    IN  IF msg.kind = "setup_map_neighbors" /\ Len(NeighborsBefore(k)) > 0
        THEN Append(before, Piece(k, 1) \o SP \o Join(NeighborsBefore(k), ","))
        ELSE before

\* what handling a line of the items alone leaves: the Engine and the
\* callbacks, the last of them the completion callback
HandledAlone(items) ==
    CASE msg.kind = "setup_map_regions" -> on_setup_map_regions(Frame(engine), items)
      [] msg.kind = "update_map" -> on_update_map(Frame(engine), items)
      [] msg.kind = "setup_map_neighbors" -> on_setup_map_neighbors(Frame(engine), items)

\* C19: a KeyError is not rolled back.  When a setup_map regions, update_map
\* or setup_map neighbors line raises it, at the first item that names an
\* unregistered id, run ends with the Engine as the items before it have left
\* it and with their per-item callbacks made, in order; no later item is
\* applied and the completion callback of the line is not invoked.
C19_NoRollback ==
    [][(/\ pc = "parse"
        /\ msg.kind \in {"setup_map_regions", "update_map", "setup_map_neighbors"}
        /\ err' = "KeyError")
          => LET k == FirstUnregistered
                 alone == HandledAlone(ItemsBefore(k))
             IN  /\ k # 0
                 /\ pc' = "raised"
                 /\ alone.err = "none"
                 /\ engine' = Collect(alone.eng)
                 /\ Len(calls') = Len(alone.calls) - 1
                 /\ calls' = SubSeq(alone.calls, 1, Len(calls'))
                 /\ \A c \in 1..Len(calls') :
                       calls'[c].cb \in {"per_setup_region", "per_update_map",
                                         "per_setup_neighbor"}
                 /\ (msg.kind # "setup_map_neighbors") => Len(calls') = k - 1
                 /\ written' = written]_vars

\* the second item of an update_map line names the unregistered region 11:
\* the first item has given region 10 to p1 with 5 armies and its
\* per_update_map has been called, on_update_map has not
C19_Witness ==
    /\ pc = "raised"
    /\ err = "KeyError"
    /\ msg.kind = "update_map"
    /\ Len(msg.items) = 2
    /\ ToDecimal(11) \notin DOMAIN engine.regions
    /\ ToDecimal(10) \in DOMAIN engine.regions
    /\ engine.region_objs[engine.regions[ToDecimal(10)]].owner = P1
    /\ engine.region_objs[engine.regions[ToDecimal(10)]].armies = 5
    /\ Len(calls) = 1
    /\ calls[1].cb = "per_update_map"
    /\ calls[1].num = 5

\* the step leaves the queue as it was and adds one token at its end
Appends ==
    /\ Len(engine'.responses) = Len(engine.responses) + 1
    /\ SubSeq(engine'.responses, 1, Len(engine.responses)) = engine.responses

\* the step leaves the token alone in the queue, whatever the queue held
Replaces(token) == engine'.responses = << token >>

\* the line respond writes for the queue: its tokens joined by commas, after
\* the do_no_moves respond itself calls for an empty queue
OutputLine(responses) ==
    Join(IF responses = <<>> THEN << NoMoves >> ELSE responses, <<",">>) \o NL

====
